---- MODULE Spec2Model ----
(***************************************************************************)
(* ViewSwitcher (druid/src/widget/view_switcher.rs): a widget that owns at *)
(* most one child, picked by child_picker and built by child_builder.      *)
(*                                                                         *)
(* The state is the two mutable fields of the struct (active_child,        *)
(* active_child_id).  Everything else is instrumentation: what the last    *)
(* pass did, step by step (pass.log), and running totals of the calls the  *)
(* widget made.  One action per Widget method; each action is the whole    *)
(* method.                                                                 *)
(***************************************************************************)
EXTENDS Integers, Sequences, FiniteSets

\* ---------------------------------------------------------------- bounds
\* discriminators have a semantic part 0..MaxSem (X = 0, Y = 1, Z = 2) ...
MaxSem == 2
\* ... and a representation part 0..MaxRep that `same` ignores
MaxRep == 1
\* selector invocations (attachment and update passes) in one behaviour
MaxPicks == 4
\* update passes after the attachment in a behaviour of SeqSpec
MaxUpdates == 5
\* box constraints range over 0..MaxDim
MaxDim == 1

\* ---------------------------------------------------------------- values
\* Option<V>: None is the empty sequence, Some(v) the one-element sequence
None == <<>>
Some(v) == <<v>>
is_some(o) == Len(o) = 1
unwrap(o) == o[1]

\* U: the discriminator type
U == [sem : 0..MaxSem, rep : 0..MaxRep]
NoD == [sem |-> -1, rep |-> -1]

\* T: the application data
T == 0 .. ((MaxSem + 1) * (MaxRep + 1) - 1)

\* Data::same on U: semantic equality, blind to the representation
same(a, b) == a.sem = b.sem

\* the selector closure handed to ViewSwitcher::new
child_picker(data) == [sem |-> data \div (MaxRep + 1), rep |-> data % (MaxRep + 1)]

\* the builder closure handed to ViewSwitcher::new: a fresh widget, tagged by
\* the number of the builder call that made it, remembering its argument
child_builder(child_id, data, tag) == [tag |-> tag, disc |-> child_id, data |-> data]

\* LifeCycle signals
Signals == {"WidgetAdded", "Other"}

\* BoxConstraints (one dimension per axis; both axes alike, one is modelled)
BoxConstraints == {bc \in [min : 0..MaxDim, max : 0..MaxDim] : bc.min <= bc.max}

\* ---------------------------------------------------------------- the log
\* one step of a pass
Ev(ev, tag, d, kind) == [ev |-> ev, tag |-> tag, d |-> d, kind |-> kind]
EvPicker(d) == Ev("picker", 0, d, "")
EvBuilder(d) == Ev("builder", 0, d, "")
EvDrop(tag) == Ev("drop", tag, NoD, "")
EvInstall(tag) == Ev("install", tag, NoD, "")
EvStore(d) == Ev("store", 0, d, "")
EvNotify == Ev("children_changed", 0, NoD, "")
EvForward(tag, kind) == Ev("forward", tag, NoD, kind)
EvPanic == Ev("panic", 0, NoD, "")

RECURSIVE Count(_, _)
Count(log, ev) ==
    IF log = <<>> THEN 0
    ELSE (IF Head(log).ev = ev THEN 1 ELSE 0) + Count(Tail(log), ev)

\* position of the first step named ev in log, 0 when there is none
RECURSIVE IndexFrom(_, _, _)
IndexFrom(log, ev, i) ==
    IF i > Len(log) THEN 0
    ELSE IF log[i].ev = ev THEN i
    ELSE IndexFrom(log, ev, i + 1)
Index(log, ev) == IndexFrom(log, ev, 1)

\* ---------------------------------------------------------------- child slot
\* WidgetPod::new: the slot around a freshly built widget.  `first` is the
\* first pass the widget inside ever received ("" while it received none).
WidgetPod_new(widget) ==
    [inner |-> widget, initialized |-> FALSE, first |-> "", origin |-> -1, size |-> -1]

\* what the widget inside the slot sees when `kind` is forwarded: the slot
\* turns the first lifecycle pass of an uninitialized occupant into its
\* WidgetAdded
Delivered(pod, kind) ==
    IF kind \in Signals /\ ~pod.initialized THEN "WidgetAdded" ELSE kind

\* WidgetPod::{event, lifecycle, update, paint_raw}: forward one pass
pod_forward(pod, kind) ==
    LET seen == Delivered(pod, kind) IN
    [pod EXCEPT !.initialized = @ \/ seen = "WidgetAdded",
                !.first = IF @ = "" THEN seen ELSE @]

\* the child widget's own layout: its preferred size, constrained
child_layout(pod, bc) ==
    LET pref == pod.inner.disc.sem % (MaxDim + 1) IN
    IF pref < bc.min THEN bc.min ELSE IF pref > bc.max THEN bc.max ELSE pref

VARIABLES
    active_child,      \* Option<WidgetPod>
    active_child_id,   \* Option<U>
    pass,              \* the last pass delivered and what it did
    picker_calls,      \* child_picker invocations so far
    builder_calls,     \* child_builder invocations so far
    notifications,     \* ctx.children_changed() calls so far
    drops,             \* children dropped so far
    attaches,          \* WidgetAdded passes delivered so far
    differing,         \* update passes whose discriminator differs from the preceding pass's
    prev_picked,       \* discriminator of the preceding attachment/update pass
    children_changed,  \* the host has a children-changed notification to answer
    panicked           \* a pass unwound

vars == <<active_child, active_child_id, pass, picker_calls, builder_calls,
          notifications, drops, attaches, differing, prev_picked,
          children_changed, panicked>>

\* arguments a pass does not have
NoBc == [min |-> 0, max |-> 0]

\* no pass delivered yet.  pre_child and pre_id are the fields as the pass
\* found them.
NoPass ==
    [kind |-> "none", data |-> -1, bc |-> NoBc, log |-> <<>>, ret |-> -1,
     pre_child |-> None, pre_id |-> None]

\* the first child is built in the constructor
Init_eager ==
    /\ active_child = Some(WidgetPod_new(child_builder(child_picker(0), 0, 1)))
    /\ active_child_id = Some(child_picker(0))
    /\ pass = NoPass
    /\ picker_calls = 1
    /\ builder_calls = 1
    /\ notifications = 0
    /\ drops = 0
    /\ attaches = 0
    /\ differing = 0
    /\ prev_picked = None
    /\ children_changed = FALSE
    /\ panicked = FALSE

\* ViewSwitcher::new
Init ==
    /\ active_child = None
    /\ active_child_id = None
    /\ pass = NoPass
    /\ picker_calls = 0
    /\ builder_calls = 0
    /\ notifications = 0
    /\ drops = 0
    /\ attaches = 0
    /\ differing = 0
    /\ prev_picked = None
    /\ children_changed = FALSE
    /\ panicked = FALSE

\* ---------------------------------------------------------------- methods
\* Each method is a function of the fields, its arguments, whether the
\* builder closure panics when called (bp) and the tag the next built widget
\* gets; it yields the new fields, the steps taken and the value returned.
Outcome(child, id, log, ret) == [child |-> child, id |-> id, log |-> log, ret |-> ret]

DropOld(child) == IF is_some(child) THEN <<EvDrop(unwrap(child).inner.tag)>> ELSE <<>>

\* the builder is handed the stored discriminator, not the new one
rebuild_old_id(child, id, child_id, data, bp, tag) ==
    LET arg == IF is_some(id) THEN unwrap(id) ELSE child_id IN
    IF bp
    THEN Outcome(child, id, <<EvBuilder(arg), EvPanic>>, -1)
    ELSE Outcome(Some(WidgetPod_new(child_builder(arg, data, tag))),
                 Some(child_id),
                 <<EvBuilder(arg)>> \o DropOld(child)
                    \o <<EvInstall(tag), EvStore(child_id)>>,
                 -1)

\* the new discriminator is never stored
rebuild_no_store(child, id, child_id, data, bp, tag) ==
    IF bp
    THEN Outcome(child, id, <<EvBuilder(child_id), EvPanic>>, -1)
    ELSE Outcome(Some(WidgetPod_new(child_builder(child_id, data, tag))),
                 IF is_some(id) THEN id ELSE Some(child_id),
                 <<EvBuilder(child_id)>> \o DropOld(child) \o <<EvInstall(tag)>>
                    \o (IF is_some(id) THEN <<>> ELSE <<EvStore(child_id)>>),
                 -1)

\* the built widget is thrown away instead of installed
rebuild_no_install(child, id, child_id, data, bp, tag) ==
    IF bp
    THEN Outcome(child, id, <<EvBuilder(child_id), EvPanic>>, -1)
    ELSE Outcome(child, Some(child_id),
                 <<EvBuilder(child_id), EvDrop(tag), EvStore(child_id)>>, -1)

\* a child that is already there is kept and used again
rebuild_reuse(child, id, child_id, data, bp, tag) ==
    IF is_some(child)
    THEN Outcome(child, Some(child_id), <<EvStore(child_id)>>, -1)
    ELSE IF bp
    THEN Outcome(child, id, <<EvBuilder(child_id), EvPanic>>, -1)
    ELSE Outcome(Some(WidgetPod_new(child_builder(child_id, data, tag))),
                 Some(child_id),
                 <<EvBuilder(child_id), EvInstall(tag), EvStore(child_id)>>,
                 -1)

\* the old child is kept until the new discriminator is stored
rebuild_late_drop(child, id, child_id, data, bp, tag) ==
    IF bp
    THEN Outcome(child, id, <<EvBuilder(child_id), EvPanic>>, -1)
    ELSE Outcome(Some(WidgetPod_new(child_builder(child_id, data, tag))),
                 Some(child_id),
                 <<EvBuilder(child_id), EvInstall(tag), EvStore(child_id)>>
                    \o DropOld(child),
                 -1)

\* the old child is taken out of the slot before the builder is called
rebuild_take_first(child, id, child_id, data, bp, tag) ==
    IF bp
    THEN Outcome(None, id, DropOld(child) \o <<EvBuilder(child_id), EvPanic>>, -1)
    ELSE Outcome(Some(WidgetPod_new(child_builder(child_id, data, tag))),
                 Some(child_id),
                 DropOld(child) \o <<EvBuilder(child_id)>>
                    \o <<EvInstall(tag), EvStore(child_id)>>,
                 -1)

\* self.active_child = Some(WidgetPod::new((self.child_builder)(&child_id, data, env)));
\* self.active_child_id = Some(child_id);
\* the right-hand side is evaluated first; the assignment then drops the old slot
rebuild(child, id, child_id, data, bp, tag) ==
    IF bp
    THEN Outcome(child, id, <<EvBuilder(child_id), EvPanic>>, -1)
    ELSE Outcome(Some(WidgetPod_new(child_builder(child_id, data, tag))),
                 Some(child_id),
                 <<EvBuilder(child_id)>> \o DropOld(child)
                    \o <<EvInstall(tag), EvStore(child_id)>>,
                 -1)

\* if let Some(child) = self.active_child.as_mut() { child.<kind>(..) }
forward(child, id, log, kind) ==
    IF is_some(child)
    THEN Outcome(Some(pod_forward(unwrap(child), kind)), id,
                 log \o <<EvForward(unwrap(child).inner.tag, kind)>>, -1)
    ELSE Outcome(child, id, log, -1)

Panics(o) == Count(o.log, "panic") > 0

\* the event is swallowed
event_fn_swallow(child, id) == Outcome(child, id, <<>>, -1)

\* fn event
event_fn(child, id) == forward(child, id, <<>>, "event")

\* every lifecycle signal is taken for the attachment
is_added_any(signal) == TRUE

\* if let LifeCycle::WidgetAdded = event
is_added(signal) == signal = "WidgetAdded"

\* signals other than the attachment are not passed on
lifecycle_fn_added_only(child, id, signal, data, bp, tag) ==
    IF is_added(signal)
    THEN LET child_id == child_picker(data)
             built == rebuild(child, id, child_id, data, bp, tag)
             log1 == <<EvPicker(child_id)>> \o built.log
         IN IF Panics(built)
            THEN Outcome(built.child, built.id, log1, -1)
            ELSE forward(built.child, built.id, log1, signal)
    ELSE Outcome(child, id, <<>>, -1)

\* the attachment returns once the child is built
lifecycle_fn_early_return(child, id, signal, data, bp, tag) ==
    IF is_added(signal)
    THEN LET child_id == child_picker(data)
             built == rebuild(child, id, child_id, data, bp, tag)
         IN Outcome(built.child, built.id, <<EvPicker(child_id)>> \o built.log, -1)
    ELSE forward(child, id, <<>>, signal)

\* fn lifecycle
lifecycle_fn(child, id, signal, data, bp, tag) ==
    IF is_added(signal)
    THEN LET child_id == child_picker(data)
             built == rebuild(child, id, child_id, data, bp, tag)
             log1 == <<EvPicker(child_id)>> \o built.log
         IN IF Panics(built)
            THEN Outcome(built.child, built.id, log1, -1)
            ELSE forward(built.child, built.id, log1, signal)
    ELSE forward(child, id, <<>>, signal)

\* the discriminators are compared by representation
differs_eq(child_id, id) == child_id # unwrap(id)

\* !child_id.same(self.active_child_id.as_ref().unwrap()), the option being Some
differs(child_id, id) == ~same(child_id, unwrap(id))

\* the update is forwarded into the child just built
switched_forward(built, log) ==
    forward(built.child, built.id, log \o <<EvNotify>>, "update")

\* the host is not told
switched_silent(built, log) == Outcome(built.child, built.id, log, -1)

\* ctx.children_changed(); the update is not forwarded into the new child
switched(built, log) == Outcome(built.child, built.id, log \o <<EvNotify>>, -1)

\* an absent stored discriminator is taken for a changed one
update_fn_always_switch(child, id, data, bp, tag) ==
    LET child_id == child_picker(data) IN
    IF ~is_some(id) \/ differs(child_id, id)
    THEN LET built == rebuild(child, id, child_id, data, bp, tag)
             log1 == <<EvPicker(child_id)>> \o built.log
         IN IF Panics(built)
            THEN Outcome(built.child, built.id, log1, -1)
            ELSE switched(built, log1)
    ELSE forward(child, id, <<EvPicker(child_id)>>, "update")

\* fn update
update_fn(child, id, data, bp, tag) ==
    LET child_id == child_picker(data) IN
    IF ~is_some(id)
    THEN \* unwrap() on None
         Outcome(child, id, <<EvPicker(child_id), EvPanic>>, -1)
    ELSE IF differs(child_id, id)
    THEN LET built == rebuild(child, id, child_id, data, bp, tag)
             log1 == <<EvPicker(child_id)>> \o built.log
         IN IF Panics(built)
            THEN Outcome(built.child, built.id, log1, -1)
            ELSE switched(built, log1)
    ELSE forward(child, id, <<EvPicker(child_id)>>, "update")

\* the child is laid out under loosened constraints
layout_fn_loosen(child, id, bc) ==
    IF is_some(child)
    THEN LET pod == unwrap(child)
             size == child_layout(pod, [bc EXCEPT !.min = 0])
             laid == [pod_forward(pod, "layout") EXCEPT !.size = size, !.origin = 0]
         IN Outcome(Some(laid), id, <<EvForward(pod.inner.tag, "layout")>>, size)
    ELSE Outcome(child, id, <<>>, bc.max)

\* fn layout
layout_fn(child, id, bc) ==
    IF is_some(child)
    THEN LET pod == unwrap(child)
             size == child_layout(pod, bc)
             laid == [pod_forward(pod, "layout") EXCEPT !.size = size, !.origin = 0]
         IN Outcome(Some(laid), id, <<EvForward(pod.inner.tag, "layout")>>, size)
    ELSE Outcome(child, id, <<>>, bc.max)

\* fn paint
paint_fn(child, id) == forward(child, id, <<>>, "paint")

\* ---------------------------------------------------------------- passes
\* the host delivers one pass: the method runs to its end (or unwinds)
Deliver(kind, data, bc, o) ==
    /\ ~panicked
    /\ active_child' = o.child
    /\ active_child_id' = o.id
    /\ pass' = [kind |-> kind, data |-> data, bc |-> bc, log |-> o.log, ret |-> o.ret,
                 pre_child |-> active_child, pre_id |-> active_child_id]
    /\ picker_calls' = picker_calls + Count(o.log, "picker")
    /\ builder_calls' = builder_calls + Count(o.log, "builder")
    /\ notifications' = notifications + Count(o.log, "children_changed")
    /\ drops' = drops + Count(o.log, "drop")
    /\ panicked' = Panics(o)

\* the discriminator of this pass against the one of the pass before
Tally(kind, data) ==
    /\ attaches' = attaches + (IF kind = "WidgetAdded" THEN 1 ELSE 0)
    /\ differing' = differing +
          (IF kind = "update" /\ is_some(prev_picked)
                /\ ~same(child_picker(data), unwrap(prev_picked))
           THEN 1 ELSE 0)
    /\ prev_picked' = Some(child_picker(data))

NoTally == UNCHANGED <<attaches, differing, prev_picked>>

Event ==
    /\ Deliver("event", -1, NoBc, event_fn(active_child, active_child_id))
    /\ NoTally
    /\ UNCHANGED children_changed

\* a lifecycle pass carrying WidgetAdded
DeliverAdded(data, bp) ==
    /\ Deliver("WidgetAdded", data, NoBc,
               lifecycle_fn(active_child, active_child_id, "WidgetAdded",
                            data, bp, builder_calls + 1))
    /\ Tally("WidgetAdded", data)
    /\ children_changed' = FALSE

LifecycleAdded ==
    /\ picker_calls < MaxPicks
    /\ \E data \in T, bp \in BOOLEAN : DeliverAdded(data, bp)

\* a lifecycle pass carrying any other signal
LifecycleOther ==
    /\ Deliver("Other", -1, NoBc,
               lifecycle_fn(active_child, active_child_id, "Other", 0, FALSE,
                            builder_calls + 1))
    /\ NoTally
    /\ children_changed' = FALSE

\* an update pass; ctx.children_changed() leaves the host a notification
DeliverUpdate(data, bp) ==
    /\ Deliver("update", data, NoBc,
               update_fn(active_child, active_child_id, data, bp, builder_calls + 1))
    /\ Tally("update", data)
    /\ children_changed' = (children_changed \/ notifications' > notifications)

Update ==
    /\ picker_calls < MaxPicks
    /\ \E data \in T, bp \in BOOLEAN : DeliverUpdate(data, bp)

Layout ==
    /\ \E bc \in BoxConstraints :
          Deliver("layout", -1, bc, layout_fn(active_child, active_child_id, bc))
    /\ NoTally
    /\ UNCHANGED children_changed

Paint ==
    /\ Deliver("paint", -1, NoBc, paint_fn(active_child, active_child_id))
    /\ NoTally
    /\ UNCHANGED children_changed

Next == Event \/ LifecycleAdded \/ LifecycleOther \/ Update \/ Layout \/ Paint

Spec == Init /\ [][Next]_vars

\* ---------------------------------------------------------------- the host
\* The traversal engine's side of the contract: the initial-attachment signal
\* is the first pass a widget receives and is sent once; a children-changed
\* notification is answered by a lifecycle pass before any other pass.
HostAllows(kind) ==
    IF kind = "WidgetAdded" THEN attaches = 0
    ELSE attaches > 0 /\ (children_changed => kind = "Other")

HostEvent == HostAllows("event") /\ Event
HostLifecycleAdded == HostAllows("WidgetAdded") /\ LifecycleAdded
HostLifecycleOther == HostAllows("Other") /\ LifecycleOther
HostUpdate == HostAllows("update") /\ Update
HostLayout == HostAllows("layout") /\ Layout
HostPaint == HostAllows("paint") /\ Paint

NextHost ==
    HostEvent \/ HostLifecycleAdded \/ HostLifecycleOther \/ HostUpdate
        \/ HostLayout \/ HostPaint

HostSpec == Init /\ [][NextHost]_vars

\* ---------------------------------------------------------------- sequences
\* A switcher attached once and then given update passes only.
SeqAttach ==
    /\ attaches = 0
    /\ \E data \in T, bp \in BOOLEAN : DeliverAdded(data, bp)

SeqUpdate ==
    /\ attaches = 1
    /\ picker_calls <= MaxUpdates
    /\ \E data \in T, bp \in BOOLEAN : DeliverUpdate(data, bp)

NextSeq == SeqAttach \/ SeqUpdate

SeqSpec == Init /\ [][NextSeq]_vars

\* A switcher attached once and then given update passes whose data select
\* X or Y only: from the second switch on, every switch goes back to the
\* discriminator that was active before the last one (X, Y, X, ...).
T2 == {data \in T : child_picker(data).sem <= 1}

TwoAttach ==
    /\ attaches = 0
    /\ \E data \in T2, bp \in BOOLEAN : DeliverAdded(data, bp)

TwoUpdate ==
    /\ attaches = 1
    /\ picker_calls <= MaxUpdates
    /\ \E data \in T2, bp \in BOOLEAN : DeliverUpdate(data, bp)

NextTwo == TwoAttach \/ TwoUpdate

TwoSpec == Init /\ [][NextTwo]_vars

\* ---------------------------------------------------------------- properties
\* what the last pass was and did
Picked == child_picker(pass.data)
Normal == Count(pass.log, "panic") = 0
Attached == is_some(pass.pre_id)
UnchangedUpdate ==
    pass.kind = "update" /\ Attached /\ same(Picked, unwrap(pass.pre_id))
SwitchingUpdate ==
    pass.kind = "update" /\ Attached /\ ~same(Picked, unwrap(pass.pre_id)) /\ Normal
Tag(child) == unwrap(child).inner.tag

\* forwards of `kind` into the child tagged `tag` during the last pass
Forwards(tag, kind) ==
    Cardinality({i \in 1..Len(pass.log) : pass.log[i] = EvForward(tag, kind)})

\* the fields are as the pass found them, but for what the child itself saw
SameChild ==
    /\ is_some(active_child) = is_some(pass.pre_child)
    /\ is_some(active_child) => unwrap(active_child).inner = unwrap(pass.pre_child).inner
FieldsKept == SameChild /\ active_child_id = pass.pre_id

\* C1: an update pass after attachment whose discriminator is the same as the
\* stored one keeps the active child, calls no builder, fires no
\* children-changed notification and forwards the update into that child
\* exactly once.
C1_UnchangedUpdateForwardsOnce ==
    UnchangedUpdate =>
        /\ is_some(pass.pre_child)
        /\ FieldsKept
        /\ Count(pass.log, "builder") = 0
        /\ Count(pass.log, "drop") = 0
        /\ Count(pass.log, "children_changed") = 0
        /\ Count(pass.log, "forward") = 1
        /\ Forwards(Tag(pass.pre_child), "update") = 1

\* an unchanged update whose discriminator is represented differently from the
\* stored one
C1_Witness ==
    /\ UnchangedUpdate
    /\ Picked # unwrap(pass.pre_id)
    /\ Forwards(Tag(active_child), "update") = 1
    /\ builder_calls = 1

\* C2: an update pass after attachment whose discriminator differs from the
\* stored one (and whose builder returns) drops the previous child exactly
\* once, calls the builder exactly once, with the new discriminator, stores
\* the new discriminator, and fires the children-changed notification exactly
\* once, after the child is installed and the discriminator stored.
C2_SwitchRebuildsOnce ==
    SwitchingUpdate =>
        /\ is_some(pass.pre_child) /\ is_some(active_child)
        /\ Count(pass.log, "drop") = 1
        /\ pass.log[Index(pass.log, "drop")] = EvDrop(Tag(pass.pre_child))
        /\ Count(pass.log, "builder") = 1
        /\ pass.log[Index(pass.log, "builder")] = EvBuilder(Picked)
        /\ unwrap(active_child).inner.disc = Picked
        /\ Tag(active_child) # Tag(pass.pre_child)
        /\ active_child_id = Some(Picked)
        /\ Count(pass.log, "children_changed") = 1
        /\ Count(pass.log, "install") = 1
        /\ Count(pass.log, "store") = 1
        /\ Index(pass.log, "children_changed") > Index(pass.log, "install")
        /\ Index(pass.log, "children_changed") > Index(pass.log, "store")

C2_Witness ==
    /\ SwitchingUpdate
    /\ notifications = 2
    /\ drops = 2
    /\ builder_calls = 3

\* C3: the update pass that switches is not forwarded into the child it
\* builds: that child receives nothing in that pass, and the first pass any
\* child receives is its initialization, which for a child built by a switch
\* comes with a later lifecycle pass.
C3_NoForwardAfterSwitch ==
    /\ SwitchingUpdate =>
          /\ Count(pass.log, "forward") = 0
          /\ unwrap(active_child).first = ""
          /\ ~unwrap(active_child).initialized
    /\ is_some(active_child) =>
          /\ unwrap(active_child).first \in {"", "WidgetAdded"}
          /\ (unwrap(active_child).first = "WidgetAdded"
                => pass.kind \in {"WidgetAdded", "Other"} \/ Tag(active_child) = Tag(pass.pre_child))

\* a child built by a switch has been initialized by the lifecycle pass that
\* followed
C3_Witness ==
    /\ pass.kind = "Other"
    /\ notifications = 1
    /\ builder_calls = 2
    /\ is_some(active_child)
    /\ is_some(pass.pre_child)
    /\ unwrap(pass.pre_child).first = ""
    /\ unwrap(active_child).first = "WidgetAdded"

\* C4: attached once and then given update passes, the builder has been
\* called once plus once per update pass whose discriminator differs from the
\* preceding pass's, and the notification has fired once per such pass.
C4_BuilderCallsCountSwitches ==
    (attaches = 1 /\ ~panicked) =>
        /\ builder_calls = 1 + differing
        /\ notifications = differing

\* attachment with X, then updates X, X, Y, Y, Z
C4_Witness ==
    /\ attaches = 1
    /\ ~panicked
    /\ picker_calls = 6
    /\ differing = 2
    /\ builder_calls = 3
    /\ notifications = 2
    /\ pass.kind = "update" /\ Picked.sem = 2
    /\ unwrap(pass.pre_id).sem = 1
    /\ unwrap(active_child).inner.tag = 3

\* C5: between passes, when the stored discriminator is Some(d), the active
\* child is the widget the latest builder call returned, and that call was
\* made with d.
C5_ChildBuiltFromStoredId ==
    (is_some(active_child_id) /\ ~panicked) =>
        /\ is_some(active_child)
        /\ Tag(active_child) = builder_calls
        /\ unwrap(active_child).inner.disc = unwrap(active_child_id)

\* after an unchanged update that carried another representation of d
C5_Witness ==
    /\ UnchangedUpdate
    /\ Picked # unwrap(active_child_id)
    /\ unwrap(active_child).inner.disc = unwrap(active_child_id)
    /\ builder_calls = 2

\* C6: once an initialization pass has occurred, the active child is present
\* exactly when the stored discriminator is.
C6_ChildIffId ==
    attaches >= 1 => (is_some(active_child) <=> is_some(active_child_id))

C6_Witness ==
    /\ attaches >= 1
    /\ is_some(active_child)
    /\ is_some(active_child_id)
    /\ notifications >= 1

\* C7: a WidgetAdded pass (whose builder returns) calls the selector on the
\* data, the builder with the result, stores the result, and only then
\* forwards WidgetAdded into the new child, exactly once.
C7_AttachBuildsStoresThenForwards ==
    (pass.kind = "WidgetAdded" /\ Normal) =>
        /\ is_some(active_child)
        /\ Count(pass.log, "picker") = 1
        /\ pass.log[1] = EvPicker(Picked)
        /\ Count(pass.log, "builder") = 1
        /\ pass.log[2] = EvBuilder(Picked)
        /\ Tag(active_child) = builder_calls
        /\ unwrap(active_child).inner.disc = Picked
        /\ active_child_id = Some(Picked)
        /\ Count(pass.log, "forward") = 1
        /\ Forwards(Tag(active_child), "WidgetAdded") = 1
        /\ pass.log[Len(pass.log)] = EvForward(Tag(active_child), "WidgetAdded")
        /\ Index(pass.log, "store") > 0
        /\ Index(pass.log, "install") > 0
        /\ unwrap(active_child).first = "WidgetAdded"
        /\ unwrap(active_child).initialized

C7_Witness ==
    /\ pass.kind = "WidgetAdded"
    /\ Normal
    /\ attaches = 1
    /\ Picked.sem = 1
    /\ unwrap(active_child).first = "WidgetAdded"

\* C8: the builder runs only in an update pass whose discriminator differs
\* from the stored one, or in the first initialization pass: never in an
\* event, layout or paint pass, an unchanged update, or a later lifecycle pass.
C8_BuilderOnlyOnSwitchOrFirstInit ==
    Count(pass.log, "builder") > 0 =>
        \/ pass.kind = "update" /\ Attached /\ ~same(Picked, unwrap(pass.pre_id))
        \/ pass.kind = "WidgetAdded" /\ attaches = 1 /\ ~Attached

\* a lifecycle pass after the first initialization, and no builder call in it
C8_Witness ==
    /\ pass.kind = "Other"
    /\ attaches = 1
    /\ Attached
    /\ Count(pass.log, "builder") = 0
    /\ Count(pass.log, "forward") = 1
    /\ builder_calls = 2

\* C9: the selector runs exactly once in every update pass and in every
\* WidgetAdded pass, and never in a layout pass, a paint pass or a lifecycle
\* pass carrying another signal.
C9_SelectorOncePerDataPass ==
    /\ pass.kind \in {"update", "WidgetAdded"} => Count(pass.log, "picker") = 1
    /\ pass.kind \in {"layout", "paint", "Other"} => Count(pass.log, "picker") = 0

C9_Witness ==
    /\ pass.kind = "Other"
    /\ Attached
    /\ picker_calls = 3
    /\ attaches = 2

\* C10: an event pass is forwarded exactly once into the active child when
\* there is one (the child built from X right after attachment with X) and
\* does nothing when there is none; it calls neither selector nor builder,
\* fires no notification and leaves the child and the stored discriminator.
C10_EventForwardsOnly ==
    pass.kind = "event" =>
        /\ FieldsKept
        /\ Count(pass.log, "picker") = 0
        /\ Count(pass.log, "builder") = 0
        /\ Count(pass.log, "drop") = 0
        /\ Count(pass.log, "children_changed") = 0
        /\ IF is_some(pass.pre_child)
           THEN /\ Len(pass.log) = 1
                /\ Forwards(Tag(pass.pre_child), "event") = 1
           ELSE pass.log = <<>>
        /\ (picker_calls = 1 /\ attaches = 1 /\ ~panicked) =>
              /\ is_some(active_child)
              /\ unwrap(active_child).inner.disc = unwrap(prev_picked)

\* Scenario B: attached with X, an event before any update
C10_Witness ==
    /\ pass.kind = "event"
    /\ picker_calls = 1
    /\ attaches = 1
    /\ is_some(active_child)
    /\ unwrap(active_child).inner.disc.sem = 0
    /\ Forwards(Tag(active_child), "event") = 1

\* an event pass before attachment found no child
C10_WitnessNoChild ==
    pass.kind = "event" /\ ~is_some(pass.pre_child) /\ pass.log = <<>>

\* C11: an update pass delivered before any attachment (no stored
\* discriminator) ends in a panic: no child is built, nothing is stored, no
\* notification fires and the pass does not complete.
C11_UpdateBeforeAttachPanics ==
    (pass.kind = "update" /\ ~Attached) =>
        /\ panicked
        /\ pass.log = <<EvPicker(Picked), EvPanic>>
        /\ active_child = pass.pre_child
        /\ active_child = None
        /\ active_child_id = None
        /\ builder_calls = 0
        /\ notifications = 0

C11_Witness ==
    /\ pass.kind = "update"
    /\ attaches = 0
    /\ panicked
    /\ Picked.sem = 1

\* C12: when the builder panics in an update pass that changes the
\* discriminator from X to Y, the pass unwinds and the node is as it was: the
\* child built from X, the stored X, no notification, no forward.
C12_BuilderPanicKeepsState ==
    (pass.kind = "update" /\ Attached /\ ~same(Picked, unwrap(pass.pre_id)) /\ ~Normal) =>
        /\ panicked
        /\ active_child = pass.pre_child
        /\ active_child_id = pass.pre_id
        /\ is_some(active_child)
        /\ unwrap(active_child).inner.disc = unwrap(active_child_id)
        /\ Count(pass.log, "builder") = 1
        /\ Count(pass.log, "drop") = 0
        /\ Count(pass.log, "install") = 0
        /\ Count(pass.log, "store") = 0
        /\ Count(pass.log, "children_changed") = 0
        /\ Count(pass.log, "forward") = 0

\* Scenario C: stored X, the builder panics on Y
C12_Witness ==
    /\ pass.kind = "update"
    /\ panicked
    /\ Attached
    /\ Picked.sem = 1
    /\ unwrap(active_child_id).sem = 0
    /\ unwrap(active_child).inner.disc.sem = 0
    /\ Count(pass.log, "builder") = 1

\* C13: a layout pass with an active child lays the child out under the
\* same constraints, returns the size the child reported and puts the child
\* at the origin; with no active child it returns the constraints' maximum.
C13_LayoutPassthrough ==
    pass.kind = "layout" =>
        IF is_some(pass.pre_child)
        THEN /\ is_some(active_child)
             /\ Forwards(Tag(pass.pre_child), "layout") = 1
             /\ Len(pass.log) = 1
             /\ unwrap(active_child).size = child_layout(unwrap(pass.pre_child), pass.bc)
             /\ pass.ret = unwrap(active_child).size
             /\ unwrap(active_child).origin = 0
        ELSE /\ pass.ret = pass.bc.max
             /\ pass.log = <<>>
             /\ active_child = None

\* the child reports less than the maximum, and that is what is returned
C13_Witness ==
    /\ pass.kind = "layout"
    /\ is_some(pass.pre_child)
    /\ unwrap(pass.pre_child).origin = -1
    /\ pass.bc = [min |-> 0, max |-> 1]
    /\ unwrap(active_child).inner.disc.sem = 0
    /\ pass.ret = 0
    /\ unwrap(active_child).origin = 0

\* before attachment the maximum of loose constraints is returned
C13_WitnessNoChild ==
    /\ pass.kind = "layout"
    /\ ~is_some(pass.pre_child)
    /\ pass.bc.min = 0
    /\ pass.ret = 1

\* C14: construction calls neither selector nor builder and leaves no child
\* and no stored discriminator; that stays so until the first WidgetAdded
\* pass, whatever event, layout and paint passes arrive before it.
C14_NothingBuiltBeforeAttach ==
    attaches = 0 =>
        /\ active_child = None
        /\ active_child_id = None
        /\ builder_calls = 0
        /\ notifications = 0
        /\ ~panicked => picker_calls = 0
        /\ pass.kind \in {"event", "layout", "paint"} => pass.log = <<>>

\* a layout pass before attachment, after which nothing has been built
C14_Witness ==
    /\ attaches = 0
    /\ pass.kind = "layout"
    /\ pass.bc = [min |-> 1, max |-> 1]
    /\ active_child = None
    /\ active_child_id = None
    /\ picker_calls = 0

\* children alive after the first i steps of the last pass: the one the pass
\* found, plus those the builder returned, minus those dropped
Returned(j) ==
    /\ pass.log[j].ev = "builder"
    /\ ~(j < Len(pass.log) /\ pass.log[j + 1].ev = "panic")
AliveAt(i) ==
    (IF is_some(pass.pre_child) THEN 1 ELSE 0)
        + Cardinality({j \in 1..i : Returned(j)})
        - Cardinality({j \in 1..i : pass.log[j].ev = "drop"})

\* C15 as claimed: at every point of every pass at most one child is alive,
\* and the builder never runs while a previously built child exists.
C15_AtMostOneChildAtEveryPoint ==
    /\ \A i \in 0..Len(pass.log) : AliveAt(i) <= 1
    /\ \A j \in 1..Len(pass.log) : pass.log[j].ev = "builder" => AliveAt(j - 1) = 0

\* C15: between passes at most one child is alive.  Inside a pass the
\* builder runs while the previous child is still installed; two children
\* exist from the builder's return until the assignment that installs the
\* new one drops the old one, which happens before the new discriminator is
\* stored and before the notification.
C15_OverlapOnlyUntilInstall ==
    /\ AliveAt(Len(pass.log)) = (IF is_some(active_child) THEN 1 ELSE 0)
    /\ \A i \in 0..Len(pass.log) : AliveAt(i) <= 2
    /\ \A i \in 1..Len(pass.log) : AliveAt(i) = 2 => pass.log[i].ev = "builder"
    /\ \A j \in 1..Len(pass.log) :
          (pass.log[j].ev = "builder" /\ is_some(pass.pre_child)) => AliveAt(j - 1) = 1
    /\ \A j \in 1..Len(pass.log) :
          pass.log[j].ev \in {"install", "store", "children_changed"} => AliveAt(j) <= 1

\* a switch: the builder returned while the previous child was alive
C15_Witness ==
    /\ SwitchingUpdate
    /\ pass.log[2].ev = "builder"
    /\ AliveAt(1) = 1
    /\ AliveAt(2) = 2
    /\ pass.log[3] = EvDrop(Tag(pass.pre_child))
    /\ AliveAt(3) = 1

\* C16: with a host that answers every children-changed notification by a
\* lifecycle pass before any other pass, and a slot that initializes an
\* uninitialized occupant on the first lifecycle pass forwarded to it, every
\* child receives its initial-attachment signal before any event, update,
\* layout or paint pass.
C16_InitializedBeforeOtherPasses ==
    /\ \A i \in 1..Len(pass.log) :
          (pass.log[i].ev = "forward" /\ pass.log[i].kind \notin Signals) =>
              /\ is_some(pass.pre_child)
              /\ pass.log[i].tag = Tag(pass.pre_child)
              /\ unwrap(pass.pre_child).initialized
              /\ unwrap(pass.pre_child).first = "WidgetAdded"
    /\ is_some(active_child) =>
          (unwrap(active_child).initialized <=> unwrap(active_child).first = "WidgetAdded")
    /\ (is_some(active_child) /\ ~unwrap(active_child).initialized) =>
          /\ unwrap(active_child).first = ""
          /\ children_changed \/ panicked

\* an event reaches a child that a switch built and a lifecycle pass then
\* initialized
C16_Witness ==
    /\ pass.kind = "event"
    /\ builder_calls = 2
    /\ notifications = 1
    /\ Forwards(Tag(active_child), "event") = 1
    /\ unwrap(active_child).first = "WidgetAdded"
    /\ Tag(active_child) = 2

\* C17: a lifecycle pass carrying a signal other than WidgetAdded, after
\* attachment, is forwarded exactly once into the active child and changes
\* nothing else: no selector, no builder, no notification, same child, same
\* stored discriminator.
C17_OtherLifecycleForwardsOnly ==
    (pass.kind = "Other" /\ Attached) =>
        /\ is_some(pass.pre_child)
        /\ FieldsKept
        /\ pass.log = <<EvForward(Tag(pass.pre_child), "Other")>>
        /\ Forwards(Tag(active_child), "Other") = 1
        /\ Count(pass.log, "picker") = 0
        /\ Count(pass.log, "builder") = 0
        /\ Count(pass.log, "drop") = 0
        /\ Count(pass.log, "children_changed") = 0

C17_Witness ==
    /\ pass.kind = "Other"
    /\ Attached
    /\ attaches = 1
    /\ picker_calls = 1
    /\ unwrap(pass.pre_child).initialized
    /\ Forwards(Tag(active_child), "Other") = 1

\* C18: a switch never reuses a child.  With discriminators going X, Y, X
\* the switch back to X calls the builder again and installs a child that
\* is not the one that was active for X before (that one was built two
\* builder calls earlier) and that has received nothing yet.
C18_SwitchBackBuildsAnew ==
    (SwitchingUpdate /\ attaches = 1 /\ differing >= 2) =>
        /\ Count(pass.log, "builder") = 1
        /\ pass.log[Index(pass.log, "builder")] = EvBuilder(Picked)
        /\ pass.log[Index(pass.log, "drop")] = EvDrop(Tag(pass.pre_child))
        /\ builder_calls = differing + 1
        /\ Tag(active_child) = builder_calls
        /\ Tag(pass.pre_child) = builder_calls - 1
        /\ Tag(active_child) # builder_calls - 2
        /\ unwrap(active_child) = WidgetPod_new(child_builder(Picked, pass.data, builder_calls))

\* attachment with X, update to Y, update back to X
C18_Witness ==
    /\ SwitchingUpdate
    /\ attaches = 1
    /\ picker_calls = 3
    /\ differing = 2
    /\ Picked.sem = 0
    /\ unwrap(pass.pre_id).sem = 1
    /\ Tag(active_child) = 3
    /\ unwrap(active_child).inner.disc.sem = 0

\* C19: after an attachment or update pass that completes, the stored
\* discriminator is the same (semantically) as what the selector returned
\* for that pass's data; layout and paint passes leave the stored
\* discriminator and the child's identity and fire no notification; a paint
\* pass with no active child does nothing.
C19_StoredIdMirrorsSelector ==
    /\ (pass.kind \in {"WidgetAdded", "update"} /\ Normal) =>
          /\ is_some(active_child_id)
          /\ same(unwrap(active_child_id), Picked)
    /\ pass.kind \in {"layout", "paint"} =>
          /\ FieldsKept
          /\ Count(pass.log, "children_changed") = 0
          /\ Count(pass.log, "store") = 0
          /\ Count(pass.log, "install") = 0
          /\ Count(pass.log, "drop") = 0
    /\ (pass.kind = "paint" /\ ~is_some(pass.pre_child)) =>
          /\ pass.log = <<>>
          /\ active_child = None
    /\ (pass.kind = "paint" /\ is_some(pass.pre_child)) =>
          pass.log = <<EvForward(Tag(pass.pre_child), "paint")>>

\* the stored discriminator is the same as the selector's value without
\* being equal to it, after a switch earlier on
C19_Witness ==
    /\ pass.kind = "update"
    /\ Normal
    /\ notifications = 1
    /\ same(unwrap(active_child_id), Picked)
    /\ unwrap(active_child_id) # Picked
    /\ unwrap(active_child_id).sem = 1

\* a paint pass that found no child
C19_WitnessPaintNoChild ==
    pass.kind = "paint" /\ ~is_some(pass.pre_child) /\ pass.log = <<>>

====
